---- MODULE Spec2Model ----
(***************************************************************************)
(* EzArgs: the ArgParser class of EzArgs.h (option registry, rule engine,  *)
(* default POSIX tokenizer and action dispatcher).                         *)
(*                                                                         *)
(* A std::string is a sequence of one-character strings; a                 *)
(* std::optional<std::string> is a sequence of length 0 (empty optional)   *)
(* or 1 (the value).                                                       *)
(***************************************************************************)
EXTENDS Integers, Sequences, FiniteSets, TLC

VARIABLES
    errorFunc_,      \* the installed ErrorHandler: "default" (prints, then StopParsing) or "record"
    options_,        \* std::vector<Option>
    aliasMap_,       \* std::map<std::string, unsigned>, as a set of <<alias, index>> (index 0-based)
    rules_,          \* std::vector<Rule>
    interrupted_,    \* bool
    pc,              \* position of the running call: "idle", "rules", "dispatch", "return"
    op,              \* the operation entered last: "none", "SetOptions", "SetRules", "SetErrorHandler",
                     \* "StopParsing", "SetValue", "ParseArgs"
    candidate,       \* the argument of the last SetOptions call
    before,          \* aliasMap_ as it was when the last SetOptions call was entered
    argv,            \* argv[1..argc-1] of the running ParseArgs call (argv[0] is the program name)
    parsedArgs,      \* local of ParseArgs: the ParsedArg list the tokenizer returned
    positionalArgs,  \* local of ParseArgs: the positional list the tokenizer returned
    ruleIdx,         \* local of ParseArgs: rules evaluated so far in this call
    argIdx,          \* local of ParseArgs: ParsedArgs the dispatch loop has passed
    errors,          \* the Error reports the handler received in the running ParseArgs call, or in
                     \* the last SetOptions call, in order
    invoked,         \* the user callables invoked in the running ParseArgs call, in order
    haltedEarlier,   \* StopParsing has set interrupted_ since the ParseArgs call before the
                     \* running one was entered: that call halted, or a StopParsing followed it
    valueOut,        \* the bool variable a SetValue action is bound to by reference
    call             \* the last direct call of that action: its argument, valueOut as it
                     \* was before the call, and the Error the call returned

vars == <<errorFunc_, options_, aliasMap_, rules_, interrupted_, pc, op, candidate, before,
          argv, parsedArgs, positionalArgs, ruleIdx, argIdx, errors, invoked,
          haltedEarlier, valueOut, call>>

-----------------------------------------------------------------------------
(* Bounds                                                                  *)

MaxOptions == 2      \* options in one SetOptions candidate list (registry specification)
MaxArgs == 3         \* tokens after the program name in one ParseArgs call
MaxAliasLen == 5     \* characters of one alias-list string (alias-list specification)
MaxBoolLen == 3      \* characters of one generated argument of the bool action

-----------------------------------------------------------------------------
(* Characters and strings                                                  *)

Alpha == {"a", "b", "c", "f", "h", "p", "q", "v", "x", "y", "z"}   \* std::isalpha

NoParam == << >>            \* empty std::optional<std::string>
Some(s) == << s >>          \* engaged std::optional<std::string>

\* std::string::find_first_of(ch, from): 1-based position of the first ch at or
\* after position from, 0 for npos.
RECURSIVE FindFirstOf(_, _, _)
FindFirstOf(s, ch, from) ==
    IF from > Len(s) THEN 0
    ELSE IF s[from] = ch THEN from
    ELSE FindFirstOf(s, ch, from + 1)

\* The tail of s from 1-based position from (std::string::substr(from-1, npos)).
Tail_(s, from) == SubSeq(s, from, Len(s))

\* ParseAliases: index runs over the string; each segment ends before the next
\* comma or at the end of the string; the loop ends as soon as index reaches
\* the size, so nothing is pushed for the empty rest after a last comma.
RECURSIVE ParseAliasesFrom(_, _)
ParseAliasesFrom(aliases, index) ==
    IF ~(index <= Len(aliases)) THEN << >>
    ELSE LET last    == FindFirstOf(aliases, ",", index)
             segment == IF last = 0 THEN Tail_(aliases, index)
                        ELSE SubSeq(aliases, index, last - 1)
         IN  << segment >> \o ParseAliasesFrom(aliases, index + Len(segment) + 1)

ParseAliases(aliases) == ParseAliasesFrom(aliases, 1)

Range(s) == { s[i] : i \in 1..Len(s) }

-----------------------------------------------------------------------------
(* Options                                                                 *)

\* An Option: aliases_ (string), the OptionAction's paramRequirements_
\* ("None", "Optional", "Required"), whether its action_ is nullptr, and
\* what the user's callable returns when it is invoked.
Opt(al, par, isNull, ret) ==
    [aliases_ |-> al, param |-> par, null |-> isNull, returns |-> ret]

ParameterValues == {"None", "Optional", "Required"}

\* aliasMap_.count(alias) > 0 and aliasMap_.at(alias)
MapHas(map, alias) == \E e \in map : e[1] = alias
MapAt(map, alias) == (CHOOSE e \in map : e[1] = alias)[2]
MapKeys(map) == { e[1] : e \in map }

\* The inner loop of SetOptions over ParseAliases(option.aliases_), from
\* segment k: the first clash or empty alias reports once and breaks.
RECURSIVE AddAliases(_, _, _, _)
AddAliases(segments, k, currentIndex, map) ==
    IF k > Len(segments) THEN [success |-> TRUE, map |-> map, errs |-> << >>]
    ELSE IF MapHas(map, segments[k])
         THEN [success |-> FALSE, map |-> map, errs |-> << "AliasClash" >>]
    ELSE IF segments[k] = << >>
         THEN [success |-> FALSE, map |-> map, errs |-> << "EmptyAlias" >>]
    ELSE AddAliases(segments, k + 1, currentIndex,
                    map \cup { << segments[k], currentIndex >> })

\* The outer loop of SetOptions from option currentIndex (0-based), run while
\* success holds: every failing check reports once, clears success and breaks.
RECURSIVE ValidateFrom(_, _, _)
ValidateFrom(options, currentIndex, map) ==
    IF ~(currentIndex < Len(options)) THEN [success |-> TRUE, map |-> map, errs |-> << >>]
    ELSE LET option == options[currentIndex + 1] IN
         IF option.aliases_ = << >>
         THEN [success |-> FALSE, map |-> map, errs |-> << "OptionHasNoAliases" >>]
         ELSE IF option.null
         THEN [success |-> FALSE, map |-> map, errs |-> << "NullOptionAction" >>]
         ELSE IF option.param \notin ParameterValues
         THEN [success |-> FALSE, map |-> map, errs |-> << "InvalidParameterEnumValue" >>]
         ELSE LET r == AddAliases(ParseAliases(option.aliases_), 1, currentIndex, map) IN
              IF r.success THEN ValidateFrom(options, currentIndex + 1, r.map)
              ELSE r

\* SetOptions without the clearing of options_ and aliasMap_ on failure.
SetOptionsKeepPartial(options) ==
    LET r == ValidateFrom(options, 0, {}) IN
    [success |-> r.success, options |-> options, map |-> r.map, errs |-> r.errs]

\* The whole of SetOptions: options_ and aliasMap_ are overwritten first, the
\* candidate list is validated, and on failure both are cleared.
SetOptionsResult(options) ==
    LET r == ValidateFrom(options, 0, {}) IN
    IF r.success
    THEN [success |-> TRUE, options |-> options, map |-> r.map, errs |-> r.errs]
    ELSE [success |-> FALSE, options |-> << >>, map |-> {}, errs |-> r.errs]

-----------------------------------------------------------------------------
(* The default tokenizer (argsParser_)                                      *)

\* A ParsedArg: std::tuple<int, std::string, std::optional<std::string>>
ParsedArg(index, alias, parameter) ==
    [index |-> index, alias |-> alias, parameter |-> parameter]

\* The parameter written to argsAndParams.front() instead of back().
SetFrontParam(args, value) ==
    [args EXCEPT ![1] = [@ EXCEPT !.parameter = Some(value)]]

\* std::get<2>(argsAndParams.back()) = value
SetBackParam(args, value) ==
    [args EXCEPT ![Len(args)] = [@ EXCEPT !.parameter = Some(value)]]

\* The loop over the characters of a single-dash token that gives the token up
\* at the first character that is neither a letter nor '='.
RECURSIVE ShortAliasesAbort(_, _, _, _, _)
ShortAliasesAbort(arg, index, k, args, errs) ==
    IF k > Len(arg) THEN [args |-> args, errs |-> errs, ub |-> FALSE]
    ELSE IF arg[k] = "="
         THEN IF args = << >>
              THEN [args |-> args, errs |-> errs, ub |-> TRUE]
              ELSE [args |-> SetBackParam(args, Tail_(arg, FindFirstOf(arg, "=", 1) + 1)),
                    errs |-> errs, ub |-> FALSE]
    ELSE IF arg[k] \in Alpha
         THEN ShortAliasesAbort(arg, index, k + 1,
                                Append(args, ParsedArg(index, << arg[k] >>, NoParam)), errs)
    ELSE [args |-> args, errs |-> Append(errs, "ExpectedShortAlias"), ub |-> FALSE]

\* The loop over the characters of a single-dash token, from character k
\* (arg[1] is the dash). '=' writes the parameter of argsAndParams.back() and
\* breaks; on an empty vector back() is undefined behaviour (ub).
RECURSIVE ShortAliases(_, _, _, _, _)
ShortAliases(arg, index, k, args, errs) ==
    IF k > Len(arg) THEN [args |-> args, errs |-> errs, ub |-> FALSE]
    ELSE IF arg[k] = "="
         THEN IF args = << >>
              THEN [args |-> args, errs |-> errs, ub |-> TRUE]
              ELSE [args |-> SetBackParam(args, Tail_(arg, FindFirstOf(arg, "=", 1) + 1)),
                    errs |-> errs, ub |-> FALSE]
    ELSE IF arg[k] \in Alpha
         THEN ShortAliases(arg, index, k + 1,
                           Append(args, ParsedArg(index, << arg[k] >>, NoParam)), errs)
    ELSE ShortAliases(arg, index, k + 1, args, Append(errs, "ExpectedShortAlias"))

\* A long alias whose parameter starts at the '=' instead of after it.
LongAliasKeepEquals(arg, index) ==
    LET aliasLast == FindFirstOf(arg, "=", 1)
        alias == IF aliasLast = 0 THEN Tail_(arg, 3) ELSE SubSeq(arg, 3, aliasLast - 1)
        param == IF aliasLast # 0 THEN Some(Tail_(arg, aliasLast)) ELSE NoParam
    IN  ParsedArg(index, alias, param)

\* A token that starts with two dashes and is longer than two characters.
LongAlias(arg, index) ==
    LET aliasLast == FindFirstOf(arg, "=", 1)
        alias == IF aliasLast = 0 THEN Tail_(arg, 3) ELSE SubSeq(arg, 3, aliasLast - 1)
        param == IF aliasLast # 0 THEN Some(Tail_(arg, aliasLast + 1)) ELSE NoParam
    IN  ParsedArg(index, alias, param)

\* A scanning loop in which a bare token replaces the parameter the last
\* ParsedArg already has.
RECURSIVE ScanArgsOverwrite(_, _, _, _)
ScanArgsOverwrite(av, index, args, errs) ==
    IF ~(index <= Len(av)) THEN [args |-> args, errs |-> errs, index |-> index, ub |-> FALSE]
    ELSE LET arg == av[index] IN
         IF Len(arg) >= 2 /\ arg[1] = "-" /\ arg[2] = "-"
         THEN IF Len(arg) = 2
              THEN [args |-> args, errs |-> errs, index |-> index, ub |-> FALSE]
              ELSE ScanArgsOverwrite(av, index + 1, Append(args, LongAlias(arg, index)), errs)
         ELSE IF Len(arg) >= 1 /\ arg[1] = "-"
         THEN IF Len(arg) = 1 \/ arg[2] = "="
              THEN ScanArgsOverwrite(av, index + 1, args, Append(errs, "ExpectedShortAlias"))
              ELSE LET r == ShortAliases(arg, index, 2, args, errs) IN
                   IF r.ub
                   THEN [ScanArgsOverwrite(av, index + 1, r.args, r.errs) EXCEPT !.ub = TRUE]
                   ELSE ScanArgsOverwrite(av, index + 1, r.args, r.errs)
         ELSE IF args # << >>
         THEN IF args[Len(args)].parameter = NoParam
              THEN ScanArgsOverwrite(av, index + 1, SetBackParam(args, arg), errs)
              ELSE ScanArgsOverwrite(av, index + 1, SetBackParam(args, arg),
                                     Append(errs, "ExpectedAliasIndicator"))
         ELSE IF index = 1
         THEN [args |-> args, errs |-> errs, index |-> index, ub |-> FALSE]
         ELSE ScanArgsOverwrite(av, index + 1, args, Append(errs, "ExpectedAliasIndicator"))

\* The scanning loop from token index: the result carries the index the loop
\* stopped at (argc when it ran to the end), and ub when the scan went through
\* back() on an empty vector (the result is then what a build that survives
\* the write produces).
RECURSIVE ScanArgs(_, _, _, _)
ScanArgs(av, index, args, errs) ==
    IF ~(index <= Len(av)) THEN [args |-> args, errs |-> errs, index |-> index, ub |-> FALSE]
    ELSE LET arg == av[index] IN
         IF Len(arg) >= 2 /\ arg[1] = "-" /\ arg[2] = "-"
         THEN IF Len(arg) = 2
              THEN [args |-> args, errs |-> errs, index |-> index, ub |-> FALSE]
              ELSE ScanArgs(av, index + 1, Append(args, LongAlias(arg, index)), errs)
         ELSE IF Len(arg) >= 1 /\ arg[1] = "-"
         THEN IF Len(arg) = 1 \/ arg[2] = "="
              THEN ScanArgs(av, index + 1, args, Append(errs, "ExpectedShortAlias"))
              ELSE LET r == ShortAliases(arg, index, 2, args, errs) IN
                   IF r.ub THEN [ScanArgs(av, index + 1, r.args, r.errs) EXCEPT !.ub = TRUE]
                   ELSE ScanArgs(av, index + 1, r.args, r.errs)
         ELSE IF args # << >>
         THEN IF args[Len(args)].parameter = NoParam
              THEN ScanArgs(av, index + 1, SetBackParam(args, arg), errs)
              ELSE ScanArgs(av, index + 1, args, Append(errs, "ExpectedAliasIndicator"))
         ELSE IF index = 1
         THEN [args |-> args, errs |-> errs, index |-> index, ub |-> FALSE]
         ELSE ScanArgs(av, index + 1, args, Append(errs, "ExpectedAliasIndicator"))

\* A tokenizer whose positional list starts after the token the scan stopped
\* at.
argsParserDropStop(av) ==
    LET r == ScanArgs(av, 1, << >>, << >>) IN
    [parsedArgs |-> r.args, positionalArgs |-> Tail_(av, r.index + 1), errs |-> r.errs,
     ub |-> r.ub]

\* The default argsParser_: the scan, then every token from the index the scan
\* stopped at is pushed to positionalArgs.
argsParser_(av) ==
    LET r == ScanArgs(av, 1, << >>, << >>) IN
    [parsedArgs |-> r.args, positionalArgs |-> Tail_(av, r.index), errs |-> r.errs, ub |-> r.ub]

-----------------------------------------------------------------------------
(* Rules                                                                   *)

Rule(kind, ruleAliases) == [kind |-> kind, ruleAliases |-> ruleAliases]

\* The inner loop of GetArgIndexesOf over the segments of one ParsedArg's alias:
\* one push per segment found in ruleAliases.
RECURSIVE SegmentMatches(_, _, _, _)
SegmentMatches(segments, k, ruleAliases, index) ==
    IF k > Len(segments) THEN << >>
    ELSE (IF segments[k] \in Range(ruleAliases) THEN << index >> ELSE << >>)
         \o SegmentMatches(segments, k + 1, ruleAliases, index)

RECURSIVE GetArgIndexesFrom(_, _, _)
GetArgIndexesFrom(ruleAliases, args, i) ==
    IF i > Len(args) THEN << >>
    ELSE (IF args[i].alias \in Range(ruleAliases)
          THEN << args[i].index >>
          ELSE SegmentMatches(ParseAliases(args[i].alias), 1, ruleAliases, args[i].index))
         \o GetArgIndexesFrom(ruleAliases, args, i + 1)

GetArgIndexesOf(ruleAliases, args) == GetArgIndexesFrom(ruleAliases, args, 1)

\* RuleRequireAtLeastOne asking for more than one index.
RulePassesAtLeastTwo(rule, args) ==
    LET n == Len(GetArgIndexesOf(rule.ruleAliases, args)) IN
    CASE rule.kind = "RequireAtLeastOne" -> ~(n <= 1)
      [] rule.kind = "MutuallyExclusive" -> ~(n > 1)
      [] rule.kind = "RequireAllOrNone"  -> ~(n # 0 /\ n # Len(rule.ruleAliases))

\* TRUE iff the rule passes; a failing rule calls the error handler once.
RulePasses(rule, args) ==
    LET n == Len(GetArgIndexesOf(rule.ruleAliases, args)) IN
    CASE rule.kind = "RequireAtLeastOne" -> ~(n = 0)
      [] rule.kind = "MutuallyExclusive" -> ~(n > 1)
      [] rule.kind = "RequireAllOrNone"  -> ~(n # 0 /\ n # Len(rule.ruleAliases))

RuleError(rule) ==
    CASE rule.kind = "RequireAtLeastOne" -> "RuleExpectedAtLeastOneOf"
      [] rule.kind = "MutuallyExclusive" -> "RuleOptionsMutuallyExclusive"
      [] rule.kind = "RequireAllOrNone"  -> "RuleExpectedAllOrNoneOf"

-----------------------------------------------------------------------------
(* OptionAction                                                            *)

\* One invocation of the user's callable of option aliasIndex; arg is what it
\* was called with (NoParam for a no-parameter callable).
Call(aliasIndex, arg) == [option |-> aliasIndex, arg |-> arg]

\* action_ as the user's callable itself, whatever paramRequirements_ says.
InvokeActionUnchecked(option, aliasIndex, parameter) ==
    [error |-> option.returns, calls |-> << Call(aliasIndex, parameter) >>]

\* action_(parameter) as the OptionAction constructors build it: the Error it
\* returns and the invocations of the user's callable it makes.
InvokeAction(option, aliasIndex, parameter) ==
    CASE option.param = "None" ->
            IF parameter # NoParam
            THEN [error |-> "UnexpectedParameter", calls |-> << >>]
            ELSE [error |-> option.returns, calls |-> << Call(aliasIndex, NoParam) >>]
      [] option.param = "Required" ->
            IF parameter # NoParam
            THEN [error |-> option.returns, calls |-> << Call(aliasIndex, parameter) >>]
            ELSE [error |-> "ExpectedParameter", calls |-> << >>]
      [] option.param = "Optional" ->
            [error |-> option.returns, calls |-> << Call(aliasIndex, parameter) >>]

-----------------------------------------------------------------------------
(* SetValue and the default bool parser                                    *)

UpperCase ==
    << "A", "B", "C", "D", "E", "F", "G", "H", "I", "J", "K", "L", "M",
       "N", "O", "P", "Q", "R", "S", "T", "U", "V", "W", "X", "Y", "Z" >>

LowerCase ==
    << "a", "b", "c", "d", "e", "f", "g", "h", "i", "j", "k", "l", "m",
       "n", "o", "p", "q", "r", "s", "t", "u", "v", "w", "x", "y", "z" >>

\* std::tolower on one character
tolower(c) ==
    IF \E i \in 1..Len(UpperCase) : UpperCase[i] = c
    THEN LowerCase[CHOOSE i \in 1..Len(UpperCase) : UpperCase[i] = c]
    ELSE c

\* The default bool parser comparing param itself, without the std::transform.
GetDefaultParserBoolCaseSensitive(param, out) ==
    IF param \in { << "t", "r", "u", "e" >>, << "y" >>, << "y", "e", "s" >> }
    THEN [error |-> "None", valueOut |-> TRUE]
    ELSE IF param \in { << "f", "a", "l", "s", "e" >>, << "n" >>, << "n", "o" >> }
    THEN [error |-> "None", valueOut |-> FALSE]
    ELSE [error |-> "ParameterParseError", valueOut |-> out]

\* GetDefaultParser<bool>: the Error it returns and valueOut after the call;
\* out is valueOut before the call.
GetDefaultParserBool(param, out) ==
    LET boolString == [i \in 1..Len(param) |-> tolower(param[i])] IN
    IF boolString \in { << "t", "r", "u", "e" >>, << "y" >>, << "y", "e", "s" >> }
    THEN [error |-> "None", valueOut |-> TRUE]
    ELSE IF boolString \in { << "f", "a", "l", "s", "e" >>, << "n" >>, << "n", "o" >> }
    THEN [error |-> "None", valueOut |-> FALSE]
    ELSE [error |-> "ParameterParseError", valueOut |-> out]

-----------------------------------------------------------------------------
(* Inputs                                                                  *)

Handlers == {"default", "record"}

\* Sequences over S of length at most n.
RECURSIVE SeqsUpTo(_, _)
SeqsUpTo(S, n) ==
    IF n = 0 THEN { << >> }
    ELSE LET shorter == SeqsUpTo(S, n - 1) IN
         shorter \cup { Append(q, e) : q \in { t \in shorter : Len(t) = n - 1 }, e \in S }

\* Candidate options of the registry specification: valid ones and one for
\* each way an option can be wrong.
OptionPool ==
    { Opt(<< "h" >>, "None", FALSE, "None"),
      Opt(<< "p", ",", "q" >>, "Required", FALSE, "None"),
      Opt(<< >>, "None", FALSE, "None"),
      Opt(<< ",", "b" >>, "Optional", FALSE, "None"),
      Opt(<< "a", " ", "b" >>, "None", FALSE, "None"),
      Opt(<< ",", ",", "a", " ", "c" >>, "None", TRUE, "None") }

RegistryCandidates == SeqsUpTo(OptionPool, MaxOptions)

\* The registry of the dispatch specification: x takes no parameter, y
\* requires one, z takes an optional one, f takes none and its callable
\* returns an error code of its own.
DispatchOptions ==
    << Opt(<< "x" >>, "None", FALSE, "None"),
       Opt(<< "y" >>, "Required", FALSE, "None"),
       Opt(<< "z" >>, "Optional", FALSE, "None"),
       Opt(<< "f" >>, "None", FALSE, "ActionError") >>

\* Another registry: one option with two aliases, and x requiring a parameter.
AltOptions ==
    << Opt(<< "z", ",", "q" >>, "Optional", FALSE, "None"),
       Opt(<< "x" >>, "Required", FALSE, "None") >>

DispatchCandidates == { DispatchOptions, AltOptions }

RuleME  == Rule("MutuallyExclusive", << << "x" >>, << "y" >>, << "z" >> >>)
RuleALO == Rule("RequireAtLeastOne", << << "z" >> >>)
RuleAON == Rule("RequireAllOrNone", << << "x" >>, << "y" >> >>)

RuleLists == { << >>, << RuleME >>, << RuleALO, RuleAON, RuleME >> }

Tokens ==
    { << "-", "x" >>, << "-", "y" >>, << "-", "z" >>, << "-", "f" >>, << "-", "q" >>,
      << "v" >>, << "-", "x", "z", "=", "v" >> }

ArgVectors == SeqsUpTo(Tokens, MaxArgs)

-----------------------------------------------------------------------------
(* State machine                                                           *)

\* errorFunc_(error, where) for each of errs in turn: the default handler
\* calls StopParsing, the recording handler only records.
Reported(errs, interrupted) ==
    IF errs # << >> /\ errorFunc_ = "default" THEN TRUE ELSE interrupted

Init ==
    /\ errorFunc_ = "default"
    /\ options_ = << >>
    /\ aliasMap_ = {}
    /\ rules_ = << >>
    /\ interrupted_ \in BOOLEAN        \* bool interrupted_; has no initializer
    /\ pc = "idle"
    /\ op = "none"
    /\ candidate = << >>
    /\ before = {}
    /\ argv = << >>
    /\ parsedArgs = << >>
    /\ positionalArgs = << >>
    /\ ruleIdx = 0
    /\ argIdx = 0
    /\ errors = << >>
    /\ invoked = << >>
    /\ haltedEarlier = FALSE
    /\ valueOut = TRUE
    /\ call = [argValue |-> << >>, was |-> TRUE, error |-> "None"]

locals == << argv, parsedArgs, positionalArgs, ruleIdx, argIdx >>

\* The variable a SetValue action is bound to, and the record of its calls.
bound == << valueOut, call >>

SetErrorHandler(h) ==
    /\ pc = "idle"
    /\ errorFunc_' = h
    /\ op' = "SetErrorHandler"
    /\ candidate' = << >> /\ before' = {} /\ errors' = << >> /\ invoked' = << >>
    /\ UNCHANGED << options_, aliasMap_, rules_, interrupted_, pc, locals >>
    /\ UNCHANGED << haltedEarlier, bound >>

SetOptions(options) ==
    /\ pc = "idle"
    /\ LET r == SetOptionsResult(options) IN
       /\ options_' = r.options
       /\ aliasMap_' = r.map
       /\ errors' = r.errs
       /\ interrupted_' = Reported(r.errs, interrupted_)
    /\ op' = "SetOptions"
    /\ candidate' = options
    /\ before' = aliasMap_
    /\ invoked' = << >>
    /\ UNCHANGED << errorFunc_, rules_, pc, locals >>
    /\ haltedEarlier' = Reported(SetOptionsResult(options).errs, haltedEarlier)
    /\ UNCHANGED bound

\* The action SetValue(valueOut) returns for a bool, called with argValue: it
\* hands argValue and the bound variable to the parser and returns its Error.
SetValue(argValue) ==
    /\ pc = "idle"
    /\ LET r == GetDefaultParserBool(argValue, valueOut) IN
       /\ valueOut' = r.valueOut
       /\ call' = [argValue |-> argValue, was |-> valueOut, error |-> r.error]
    /\ op' = "SetValue"
    /\ candidate' = << >> /\ before' = {} /\ errors' = << >> /\ invoked' = << >>
    /\ UNCHANGED << errorFunc_, options_, aliasMap_, rules_, interrupted_, pc, locals,
                    haltedEarlier >>

\* StopParsing called between two ParseArgs calls.
StopParsing ==
    /\ pc = "idle"
    /\ interrupted_' = TRUE
    /\ haltedEarlier' = TRUE
    /\ op' = "StopParsing"
    /\ candidate' = << >> /\ before' = {} /\ errors' = << >> /\ invoked' = << >>
    /\ UNCHANGED << errorFunc_, options_, aliasMap_, rules_, pc, locals, bound >>

SetRules(rules) ==
    /\ pc = "idle"
    /\ rules_' = rules
    /\ op' = "SetRules"
    /\ candidate' = << >> /\ before' = {} /\ errors' = << >> /\ invoked' = << >>
    /\ UNCHANGED << errorFunc_, options_, aliasMap_, interrupted_, pc, locals >>
    /\ UNCHANGED << haltedEarlier, bound >>

\* ParseArgs without the reset of interrupted_ at its entry.
ParseArgsBeginNoReset(av) ==
    /\ pc = "idle"
    /\ LET r == argsParser_(av) IN
       /\ parsedArgs' = r.parsedArgs
       /\ positionalArgs' = r.positionalArgs
       /\ errors' = r.errs
       /\ interrupted_' = Reported(r.errs, interrupted_)
       /\ IF r.ub
          THEN pc' \in {"crashed", IF rules_ = << >> THEN "dispatch" ELSE "rules"}
          ELSE pc' = IF rules_ = << >> THEN "dispatch" ELSE "rules"
    /\ argv' = av
    /\ ruleIdx' = 0
    /\ argIdx' = 0
    /\ invoked' = << >>
    /\ op' = "ParseArgs"
    /\ candidate' = << >> /\ before' = {}
    /\ UNCHANGED << errorFunc_, options_, aliasMap_, rules_ >>
    /\ UNCHANGED << haltedEarlier, bound >>

\* ParseArgs resetting interrupted_ after the tokenizer has run.
ParseArgsBeginResetAfter(av) ==
    /\ pc = "idle"
    /\ LET r == argsParser_(av) IN
       /\ parsedArgs' = r.parsedArgs
       /\ positionalArgs' = r.positionalArgs
       /\ errors' = r.errs
       /\ interrupted_' = FALSE
       /\ IF r.ub
          THEN pc' \in {"crashed", IF rules_ = << >> THEN "dispatch" ELSE "rules"}
          ELSE pc' = IF rules_ = << >> THEN "dispatch" ELSE "rules"
    /\ argv' = av
    /\ ruleIdx' = 0
    /\ argIdx' = 0
    /\ invoked' = << >>
    /\ op' = "ParseArgs"
    /\ candidate' = << >> /\ before' = {}
    /\ UNCHANGED << errorFunc_, options_, aliasMap_, rules_ >>
    /\ UNCHANGED << haltedEarlier, bound >>

\* ParseArgs up to the rule loop: interrupted_ is reset, then the tokenizer
\* runs and reports its errors. A run of the tokenizer into undefined
\* behaviour either ends the process or goes on with what was scanned.
ParseArgsBegin(av) ==
    /\ pc = "idle"
    /\ LET r == argsParser_(av) IN
       /\ parsedArgs' = r.parsedArgs
       /\ positionalArgs' = r.positionalArgs
       /\ errors' = r.errs
       /\ interrupted_' = Reported(r.errs, FALSE)
       /\ IF r.ub
          THEN pc' \in {"crashed", IF rules_ = << >> THEN "dispatch" ELSE "rules"}
          ELSE pc' = IF rules_ = << >> THEN "dispatch" ELSE "rules"
    /\ argv' = av
    /\ ruleIdx' = 0
    /\ argIdx' = 0
    /\ invoked' = << >>
    /\ op' = "ParseArgs"
    /\ candidate' = << >> /\ before' = {}
    /\ UNCHANGED << errorFunc_, options_, aliasMap_, rules_ >>
    /\ UNCHANGED << haltedEarlier, bound >>

\* One pass of the rule loop that goes on with the next rule only while no rule
\* has failed.
EvalRuleStopAtFirst ==
    /\ pc = "rules"
    /\ LET rule == rules_[ruleIdx + 1]
           passes == RulePasses(rule, parsedArgs)
           last == ~passes \/ ruleIdx + 1 = Len(rules_)
       IN  /\ errors' = IF passes THEN errors ELSE Append(errors, RuleError(rule))
           /\ interrupted_' = IF passes THEN interrupted_ ELSE TRUE
           /\ ruleIdx' = IF last THEN Len(rules_) ELSE ruleIdx + 1
           /\ pc' = IF last THEN "dispatch" ELSE "rules"
    /\ UNCHANGED << errorFunc_, options_, aliasMap_, rules_, op, candidate, before,
                    argv, parsedArgs, positionalArgs, argIdx, invoked >>
    /\ UNCHANGED << haltedEarlier, bound >>

\* One pass of the rule loop without the StopParsing of a failing rule.
EvalRuleNoStop ==
    /\ pc = "rules"
    /\ LET rule == rules_[ruleIdx + 1]
           passes == RulePasses(rule, parsedArgs)
       IN  /\ errors' = IF passes THEN errors ELSE Append(errors, RuleError(rule))
           /\ interrupted_' = Reported(IF passes THEN << >> ELSE << RuleError(rule) >>,
                                       interrupted_)
    /\ ruleIdx' = ruleIdx + 1
    /\ pc' = IF ruleIdx + 1 = Len(rules_) THEN "dispatch" ELSE "rules"
    /\ UNCHANGED << errorFunc_, options_, aliasMap_, rules_, op, candidate, before,
                    argv, parsedArgs, positionalArgs, argIdx, invoked >>
    /\ UNCHANGED << haltedEarlier, bound >>

\* One pass of the rule loop: the rule is evaluated on the whole ParsedArg
\* list; a failing rule has reported once, and ParseArgs calls StopParsing.
EvalRule ==
    /\ pc = "rules"
    /\ LET rule == rules_[ruleIdx + 1]
           passes == RulePasses(rule, parsedArgs)
       IN  /\ errors' = IF passes THEN errors ELSE Append(errors, RuleError(rule))
           /\ interrupted_' = IF passes THEN interrupted_ ELSE TRUE
    /\ ruleIdx' = ruleIdx + 1
    /\ pc' = IF ruleIdx + 1 = Len(rules_) THEN "dispatch" ELSE "rules"
    /\ UNCHANGED << errorFunc_, options_, aliasMap_, rules_, op, candidate, before,
                    argv, parsedArgs, positionalArgs, argIdx, invoked >>
    /\ UNCHANGED << haltedEarlier, bound >>

\* A pass of the dispatch loop that skips an alias it does not find.
DispatchOneSkipUnknown(arg) ==
    IF MapHas(aliasMap_, arg.alias)
    THEN LET aliasIndex == MapAt(aliasMap_, arg.alias) IN
         InvokeAction(options_[aliasIndex + 1], aliasIndex, arg.parameter)
    ELSE [error |-> "None", calls |-> << >>]

\* What one pass of the dispatch loop does with ParsedArg arg: the error it
\* reports ("None" for none) and the invocations of user callables.
DispatchOne(arg) ==
    IF MapHas(aliasMap_, arg.alias)
    THEN LET aliasIndex == MapAt(aliasMap_, arg.alias) IN
         InvokeAction(options_[aliasIndex + 1], aliasIndex, arg.parameter)
    ELSE [error |-> "UnrecognisedAlias", calls |-> << >>]

\* A pass of the dispatch loop that leaves the halting to the error handler.
DispatchArgNoHalt ==
    /\ pc = "dispatch"
    /\ argIdx < Len(parsedArgs)
    /\ ~interrupted_
    /\ LET r == DispatchOne(parsedArgs[argIdx + 1]) IN
       /\ invoked' = invoked \o r.calls
       /\ errors' = IF r.error # "None" THEN Append(errors, r.error) ELSE errors
       /\ interrupted_' = Reported(IF r.error # "None" THEN << r.error >> ELSE << >>, FALSE)
    /\ argIdx' = argIdx + 1
    /\ UNCHANGED << errorFunc_, options_, aliasMap_, rules_, pc, op, candidate, before,
                    argv, parsedArgs, positionalArgs, ruleIdx >>
    /\ UNCHANGED << haltedEarlier, bound >>

\* A pass of the dispatch loop after which the loop is interrupted only if the
\* error handler has called StopParsing.
DispatchArgHandlerHalts ==
    /\ pc = "dispatch"
    /\ argIdx < Len(parsedArgs)
    /\ ~interrupted_
    /\ LET r == DispatchOne(parsedArgs[argIdx + 1]) IN
       /\ invoked' = invoked \o r.calls
       /\ errors' = IF r.error # "None" THEN Append(errors, r.error) ELSE errors
       /\ interrupted_' = (r.error # "None" /\ errorFunc_ = "default")
    /\ argIdx' = argIdx + 1
    /\ UNCHANGED << errorFunc_, options_, aliasMap_, rules_, pc, op, candidate, before,
                    argv, parsedArgs, positionalArgs, ruleIdx >>
    /\ UNCHANGED << haltedEarlier, bound >>

\* A dispatch loop that walks the ParsedArg list from its end.
DispatchArgReverse ==
    /\ pc = "dispatch"
    /\ argIdx < Len(parsedArgs)
    /\ ~interrupted_
    /\ LET r == DispatchOne(parsedArgs[Len(parsedArgs) - argIdx]) IN
       /\ invoked' = invoked \o r.calls
       /\ errors' = IF r.error # "None" THEN Append(errors, r.error) ELSE errors
       /\ interrupted_' = (r.error # "None")
    /\ argIdx' = argIdx + 1
    /\ UNCHANGED << errorFunc_, options_, aliasMap_, rules_, pc, op, candidate, before,
                    argv, parsedArgs, positionalArgs, ruleIdx >>
    /\ UNCHANGED << haltedEarlier, bound >>

\* A dispatch loop that passes over a ParsedArg whose option was already
\* actioned in this call.
DispatchArgOnce ==
    /\ pc = "dispatch"
    /\ argIdx < Len(parsedArgs)
    /\ ~interrupted_
    /\ LET arg == parsedArgs[argIdx + 1]
           done == /\ MapHas(aliasMap_, arg.alias)
                   /\ \E k \in 1..Len(invoked) : invoked[k].option = MapAt(aliasMap_, arg.alias)
           r == IF done THEN [error |-> "None", calls |-> << >>] ELSE DispatchOne(arg)
       IN
       /\ invoked' = invoked \o r.calls
       /\ errors' = IF r.error # "None" THEN Append(errors, r.error) ELSE errors
       /\ interrupted_' = (r.error # "None")
    /\ argIdx' = argIdx + 1
    /\ UNCHANGED << errorFunc_, options_, aliasMap_, rules_, pc, op, candidate, before,
                    argv, parsedArgs, positionalArgs, ruleIdx >>
    /\ UNCHANGED << haltedEarlier, bound >>

\* One pass of the dispatch loop, not interrupted: the action of the next
\* ParsedArg is looked up and invoked; any error is reported and followed by
\* StopParsing.
DispatchArg ==
    /\ pc = "dispatch"
    /\ argIdx < Len(parsedArgs)
    /\ ~interrupted_
    /\ LET r == DispatchOne(parsedArgs[argIdx + 1]) IN
       /\ invoked' = invoked \o r.calls
       /\ errors' = IF r.error # "None" THEN Append(errors, r.error) ELSE errors
       /\ interrupted_' = (r.error # "None")
    /\ argIdx' = argIdx + 1
    /\ UNCHANGED << errorFunc_, options_, aliasMap_, rules_, pc, op, candidate, before,
                    argv, parsedArgs, positionalArgs, ruleIdx >>
    /\ UNCHANGED << haltedEarlier, bound >>

\* An end of the dispatch loop that gives up the positional list of a call
\* that was interrupted.
DispatchEndDropPositionals ==
    /\ pc = "dispatch"
    /\ argIdx = Len(parsedArgs) \/ interrupted_
    /\ pc' = "return"
    /\ positionalArgs' = IF interrupted_ THEN << >> ELSE positionalArgs
    /\ UNCHANGED << errorFunc_, options_, aliasMap_, rules_, interrupted_, op, candidate,
                    before, argv, parsedArgs, ruleIdx, argIdx, errors, invoked >>
    /\ UNCHANGED << haltedEarlier, bound >>

\* The dispatch loop ends: every ParsedArg was passed, or interrupted_ is set.
DispatchEnd ==
    /\ pc = "dispatch"
    /\ argIdx = Len(parsedArgs) \/ interrupted_
    /\ pc' = "return"
    /\ UNCHANGED << errorFunc_, options_, aliasMap_, rules_, interrupted_, op, candidate,
                    before, locals, errors, invoked >>
    /\ UNCHANGED << haltedEarlier, bound >>

\* return positionalArgs: the locals of the call are gone, and the caller has
\* taken what the call reported and invoked.
ParseArgsReturn ==
    /\ pc = "return"
    /\ pc' = "idle"
    /\ argv' = << >> /\ parsedArgs' = << >> /\ positionalArgs' = << >>
    /\ ruleIdx' = 0 /\ argIdx' = 0
    /\ errors' = << >> /\ invoked' = << >>
    /\ UNCHANGED << errorFunc_, options_, aliasMap_, rules_, interrupted_, op, candidate,
                    before >>
    /\ haltedEarlier' = interrupted_
    /\ UNCHANGED bound

Next ==
    \/ \E h \in Handlers : SetErrorHandler(h)
    \/ \E options \in DispatchCandidates : SetOptions(options)
    \/ \E rules \in RuleLists : SetRules(rules)
    \/ StopParsing
    \/ \E av \in ArgVectors : ParseArgsBegin(av)
    \/ EvalRule
    \/ DispatchArg
    \/ DispatchEnd
    \/ ParseArgsReturn

Spec == Init /\ [][Next]_vars

\* The registry alone: SetOptions over every candidate list of the pool.
NextOptions ==
    \/ \E h \in Handlers : SetErrorHandler(h)
    \/ \E options \in RegistryCandidates : SetOptions(options)

SpecOptions == Init /\ [][NextOptions]_vars

\* The tokens of the tokenizer specification: the terminator, a long and a
\* short alias with and without '=', a short-alias group with and without
\* '=', and a bare value.
ScanTokens ==
    { << "-", "-" >>,
      << "-", "-", "p" >>, << "-", "-", "p", "=", "v" >>,
      << "-", "p" >>, << "-", "p", "=", "v" >>,
      << "-", "a", "b" >>, << "-", "a", "b", "=", "v" >>,
      << "v" >> }

ScanVectors == SeqsUpTo(ScanTokens, MaxArgs)

\* ParseArgs on a parser without options and rules: the dispatch loop stops
\* at the first ParsedArg, whose alias it does not find.
NextScan ==
    \/ \E h \in Handlers : SetErrorHandler(h)
    \/ \E av \in ScanVectors : ParseArgsBegin(av)
    \/ DispatchArg
    \/ DispatchEnd
    \/ ParseArgsReturn

SpecScan == Init /\ [][NextScan]_vars

\* The rule engine alone: every built-in rule over target lists of one, two
\* and three aliases, one rule or three rules installed, and tokens that
\* supply a target alias, another alias, or a long alias with a comma in it.
RuleKinds == {"RequireAtLeastOne", "MutuallyExclusive", "RequireAllOrNone"}

TargetLists ==
    { << << "x" >> >>, << << "x" >>, << "y" >> >>, << << "x" >>, << "y" >>, << "z" >> >> }

RulePool ==
    { << Rule(kind, targets) >> : kind \in RuleKinds, targets \in TargetLists }
        \cup { << RuleALO, RuleAON, RuleME >> }

RuleTokens ==
    { << "-", "x" >>, << "-", "y" >>, << "-", "q" >>, << "-", "-", "x", ",", "y" >> }

RuleVectors == SeqsUpTo(RuleTokens, MaxArgs)

NextRules ==
    \/ \E h \in Handlers : SetErrorHandler(h)
    \/ \E rules \in RulePool : SetRules(rules)
    \/ \E av \in RuleVectors : ParseArgsBegin(av)
    \/ EvalRule
    \/ DispatchArg
    \/ DispatchEnd
    \/ ParseArgsReturn

SpecRules == Init /\ [][NextRules]_vars

\* The alias lists alone: SetOptions of one option whose alias list is any
\* string of letters and commas up to the bound.
AliasChars == {"f", ","}

AliasStrings == SeqsUpTo(AliasChars, MaxAliasLen)

AliasCandidates == { << Opt(aliases, "None", FALSE, "None") >> : aliases \in AliasStrings }

NextAliases ==
    \/ \E h \in Handlers : SetErrorHandler(h)
    \/ \E options \in AliasCandidates : SetOptions(options)

SpecAliases == Init /\ [][NextAliases]_vars

\* Calls that return positional arguments: one option p, no rule or a rule
\* that p does not satisfy, and tokens with a terminator and bare tokens.
ReturnOptions == << Opt(<< "p" >>, "Optional", FALSE, "None") >>

ReturnRuleLists == { << >>, << RuleALO >> }

ReturnTokens ==
    { << "-", "-" >>, << "-", "p" >>, << "-", "p", "=", "v" >>, << "-", "b" >>, << "v" >> }

ReturnVectors == SeqsUpTo(ReturnTokens, MaxArgs)

NextReturn ==
    \/ \E h \in Handlers : SetErrorHandler(h)
    \/ SetOptions(ReturnOptions)
    \/ \E rules \in ReturnRuleLists : SetRules(rules)
    \/ \E av \in ReturnVectors : ParseArgsBegin(av)
    \/ EvalRule
    \/ DispatchArg
    \/ DispatchEnd
    \/ ParseArgsReturn

SpecReturn == Init /\ [][NextReturn]_vars

\* The tokenizer on single-dash tokens that are not a letter group: a lone
\* dash, a digit between two letters, '=' after a digit; with them a short
\* alias with and without a value, a long alias with a value, and a bare token
\* that is none of the values.
MalformedTokens ==
    { << "-" >>,
      << "-", "a", "1", "b" >>,
      << "-", "1", "=", "x" >>,
      << "-", "a" >>, << "-", "a", "=", "w" >>,
      << "-", "-", "p", "=", "w" >>,
      << "v" >> }

MalformedVectors == SeqsUpTo(MalformedTokens, MaxArgs)

NextMalformed ==
    \/ \E h \in Handlers : SetErrorHandler(h)
    \/ \E av \in MalformedVectors : ParseArgsBegin(av)
    \/ DispatchArg
    \/ DispatchEnd
    \/ ParseArgsReturn

SpecMalformed == Init /\ [][NextMalformed]_vars

\* The strings the bool action is called with: every string over a few
\* characters up to the bound, and the words of the parser and of the tests.
BoolChars == {"y", "Y", "n", "o", "0"}

BoolWords ==
    { << "t", "r", "u", "e" >>,
      << "T", "R", "U", "E" >>,
      << "f", "a", "l", "s", "e" >>,
      << "F", "a", "l", "S", "E" >>,
      << "y", "e", "s" >>,
      << "Y", "e", "s" >>,
      << "N" >>,
      << "N", "O" >>,
      << "N", "o" >>,
      << "v", "g", "s", "j", "d" >>,
      << "f", "a", "l", "s", "e", "t", "r", "u", "e" >> }

BoolStrings == SeqsUpTo(BoolChars, MaxBoolLen) \cup BoolWords

NextBool == \E argValue \in BoolStrings : SetValue(argValue)

SpecBool == Init /\ [][NextBool]_vars

-----------------------------------------------------------------------------
(* Helpers of the properties                                               *)

Count(seq, e) == Cardinality({ i \in 1..Len(seq) : seq[i] = e })

\* Splitting on commas by position: one segment more than there are commas.
RECURSIVE SplitOnComma(_)
SplitOnComma(str) ==
    LET c == FindFirstOf(str, ",", 1) IN
    IF c = 0 THEN << str >>
    ELSE << SubSeq(str, 1, c - 1) >> \o SplitOnComma(Tail_(str, c + 1))

\* The alias segments of an option: none for the empty alias list.
Segments(option) == IF option.aliases_ = << >> THEN << >> ELSE SplitOnComma(option.aliases_)

\* The whitespace characters of the alphabet.
Space == {" "}

HasSpace(alias) == \E i \in 1..Len(alias) : alias[i] \in Space

\* The segments of options 1..n-1 and the first k-1 segments of option n.
EarlierSegments(options, n, k) ==
    UNION { Range(Segments(options[m])) : m \in 1..(n - 1) }
        \cup { Segments(options[n])[j] : j \in 1..(k - 1) }

\* The number of problems of one kind in a candidate list, by the table of
\* per-option validations.
Problems(options, kind) ==
    LET perSegment(P(_, _)) ==
            Cardinality({ nk \in { << n, k >> : n \in 1..Len(options), k \in 1..4 } :
                            /\ nk[2] <= Len(Segments(options[nk[1]]))
                            /\ P(nk[1], nk[2]) })
        perOption(P(_)) == Cardinality({ n \in 1..Len(options) : P(options[n]) })
        isEmpty(n, k) == Segments(options[n])[k] = << >>
        hasSpace(n, k) == HasSpace(Segments(options[n])[k])
        clashes(n, k) == /\ Segments(options[n])[k] # << >>
                         /\ Segments(options[n])[k] \in EarlierSegments(options, n, k)
        noAliases(o) == o.aliases_ = << >>
        nullAction(o) == o.null
    IN  CASE kind = "OptionHasNoAliases" -> perOption(noAliases)
          [] kind = "NullOptionAction"   -> perOption(nullAction)
          [] kind = "EmptyAlias"         -> perSegment(isEmpty)
          [] kind = "SpaceInAlias"       -> perSegment(hasSpace)
          [] kind = "AliasClash"         -> perSegment(clashes)

DefinitionErrors ==
    {"OptionHasNoAliases", "NullOptionAction", "EmptyAlias", "SpaceInAlias", "AliasClash"}

\* The last operation was a SetOptions call that rejected its candidate list.
Rejected == op = "SetOptions" /\ errors # << >>

-----------------------------------------------------------------------------
(* Properties of the registry                                              *)

C2_EveryProblemReported ==
    op = "SetOptions" =>
        \A kind \in DefinitionErrors \ {"SpaceInAlias"} :
            Count(errors, kind) = Problems(candidate, kind)

\* C3: every alias of the installed registry is unique across the installed
\* options, non-empty and free of whitespace; a candidate alias segment with
\* whitespace is reported as SpaceInAlias, once per segment, and rejected.
C3_InstalledAliasesWellFormed ==
    /\ \A e \in aliasMap_ :
          /\ e[1] # << >>
          /\ ~HasSpace(e[1])
          /\ \A g \in aliasMap_ : g[1] = e[1] => g = e
    /\ op = "SetOptions" =>
          /\ Count(errors, "SpaceInAlias") = Problems(candidate, "SpaceInAlias")
          /\ Problems(candidate, "SpaceInAlias") > 0 => aliasMap_ = {}

-----------------------------------------------------------------------------
(* Helpers of the properties of ParseArgs                                  *)

InCall == pc \in {"rules", "dispatch", "return"}

\* The installed rules the ParsedArg list of the call violates.
FailedRules == { i \in 1..Len(rules_) : ~RulePasses(rules_[i], parsedArgs) }

RuleErrors ==
    {"RuleExpectedAtLeastOneOf", "RuleOptionsMutuallyExclusive", "RuleExpectedAllOrNoneOf"}

RuleReports == Cardinality({ i \in 1..Len(errors) : errors[i] \in RuleErrors })

Supplied(alias) == \E i \in 1..Len(parsedArgs) : parsedArgs[i].alias = alias

Resolves(arg) == arg.alias \in MapKeys(aliasMap_)
OptionOf(arg) == options_[MapAt(aliasMap_, arg.alias) + 1]

\* The error dispatching ParsedArg arg is to produce, by the dispatcher's
\* steps 1 to 3: alias miss, arity mismatch, the action's own result.
ExpectedError(arg) ==
    IF ~Resolves(arg) THEN "UnrecognisedAlias"
    ELSE IF OptionOf(arg).param = "None" /\ arg.parameter # NoParam THEN "UnexpectedParameter"
    ELSE IF OptionOf(arg).param = "Required" /\ arg.parameter = NoParam THEN "ExpectedParameter"
    ELSE OptionOf(arg).returns

\* The invocation dispatching ParsedArg arg is to make when its alias resolves
\* and its parameter fits the arity.
ExpectedCall(arg) ==
    Call(MapAt(aliasMap_, arg.alias),
         IF OptionOf(arg).param = "None" THEN NoParam ELSE arg.parameter)

LastError == IF errors = << >> THEN "None" ELSE errors[Len(errors)]

\* The letters of a single-dash token up to its first '=', in order.
RECURSIVE GroupLetters(_, _)
GroupLetters(arg, k) ==
    IF k > Len(arg) \/ arg[k] = "=" THEN << >>
    ELSE (IF arg[k] \in Alpha THEN << << arg[k] >> >> ELSE << >>) \o GroupLetters(arg, k + 1)

IsShortToken(arg) ==
    /\ Len(arg) >= 2 /\ arg[1] = "-" /\ arg[2] \notin {"-", "="}

\* The aliases of the ParsedArgs at token position t, in list order.
RECURSIVE AliasesAt(_, _)
AliasesAt(t, i) ==
    IF i > Len(parsedArgs) THEN << >>
    ELSE (IF parsedArgs[i].index = t THEN << parsedArgs[i].alias >> ELSE << >>)
         \o AliasesAt(t, i + 1)

-----------------------------------------------------------------------------
(* Properties of ParseArgs                                                 *)

\* C4: in a ParseArgs call in which an installed rule fails no option action
\* is invoked at all, whatever the error handler does; with the one rule
\* MutuallyExclusive({x,y,z}) and both x and y supplied there is exactly one
\* RuleOptionsMutuallyExclusive report and no invocation.
C4_RuleFailureSuppressesActions ==
    /\ InCall /\ FailedRules # {} => invoked = << >>
    /\ pc = "return" /\ rules_ = << RuleME >> /\ Supplied(<< "x" >>) /\ Supplied(<< "y" >>) =>
          /\ Count(errors, "RuleOptionsMutuallyExclusive") = 1
          /\ invoked = << >>

\* A finished call under the recording handler with x and y supplied, both
\* registered, and the mutual exclusion rule installed.
C4_Witness ==
    /\ pc = "return" /\ errorFunc_ = "record"
    /\ rules_ = << RuleME >> /\ Supplied(<< "x" >>) /\ Supplied(<< "y" >>)
    /\ \A i \in 1..Len(parsedArgs) : ExpectedError(parsedArgs[i]) = "None"
    /\ LastError = "RuleOptionsMutuallyExclusive"

\* C5: every installed rule is evaluated on the complete ParsedArg list before
\* any option action is invoked, and evaluation does not stop at a failing
\* rule: k violated rules give k rule reports, also when the handler halts.
C5_AllRulesRunBeforeDispatch ==
    InCall =>
        /\ (invoked # << >> \/ argIdx > 0) => ruleIdx = Len(rules_)
        /\ pc \in {"dispatch", "return"} =>
              /\ ruleIdx = Len(rules_)
              /\ RuleReports = Cardinality(FailedRules)

\* A finished call under the halting handler in which two rules failed.
C5_Witness ==
    /\ pc = "return" /\ errorFunc_ = "default"
    /\ Cardinality(FailedRules) >= 2
    /\ RuleReports >= 2

\* C6: when dispatching the i-th ParsedArg produces an error, the error is
\* reported, no later ParsedArg is dispatched and no further action invoked in
\* that call, and the invocations made for ParsedArgs 1..i-1 remain.
C6_FailFastPartial ==
    InCall =>
        \A i \in 1..argIdx :
            ExpectedError(parsedArgs[i]) # "None" =>
                /\ argIdx = i
                /\ interrupted_
                /\ LastError = ExpectedError(parsedArgs[i])
                /\ Len(invoked) \in {i - 1, i}
                /\ \A j \in 1..(i - 1) : invoked[j] = ExpectedCall(parsedArgs[j])

\* A finished call under the recording handler that halted on its second
\* ParsedArg with a third one left, the action of the first one invoked.
C6_Witness ==
    /\ pc = "return" /\ errorFunc_ = "record"
    /\ argIdx = 2 /\ Len(parsedArgs) = 3
    /\ ExpectedError(parsedArgs[2]) # "None"
    /\ Len(invoked) = 1

\* C7: actions are invoked in the order of the ParsedArg list: the k-th
\* invocation of a call is the one of the k-th ParsedArg; the list is ordered
\* by token position and, inside one short-alias group, by character.
C7_DispatchInListOrder ==
    InCall =>
        /\ Len(invoked) <= argIdx
        /\ \A k \in 1..Len(invoked) :
              Resolves(parsedArgs[k]) /\ invoked[k] = ExpectedCall(parsedArgs[k])
        /\ \A i \in 1..Len(parsedArgs) : \A j \in i..Len(parsedArgs) :
              parsedArgs[i].index <= parsedArgs[j].index
        /\ \A t \in 1..Len(argv) :
              IsShortToken(argv[t]) /\ t <= Len(argv) - Len(positionalArgs) =>
                  AliasesAt(t, 1) = GroupLetters(argv[t], 2)

\* A finished call in which the two actions of one short-alias group were
\* invoked, of two different options.
C7_Witness ==
    /\ pc = "return"
    /\ Len(invoked) >= 2
    /\ parsedArgs[1].index = parsedArgs[2].index
    /\ invoked[1].option # invoked[2].option

\* C8: for a ParsedArg whose alias resolves, arity None with a parameter gives
\* UnexpectedParameter and no invocation, without one an invocation with no
\* argument; arity Required without a parameter gives ExpectedParameter and no
\* invocation, with one an invocation with that string; arity Optional always
\* an invocation with the parameter as given.
C8_ParameterAdaptedToArity ==
    InCall /\ argIdx >= 1 /\ Resolves(parsedArgs[argIdx]) =>
        LET arg == parsedArgs[argIdx]
            index == MapAt(aliasMap_, arg.alias)
            notInvoked(error) == LastError = error /\ Len(invoked) = argIdx - 1
            invokedWith(a) == Len(invoked) = argIdx /\ invoked[argIdx] = Call(index, a)
        IN  CASE OptionOf(arg).param = "None" ->
                    IF arg.parameter # NoParam THEN notInvoked("UnexpectedParameter")
                    ELSE invokedWith(NoParam)
              [] OptionOf(arg).param = "Required" ->
                    IF arg.parameter = NoParam THEN notInvoked("ExpectedParameter")
                    ELSE invokedWith(arg.parameter)
              [] OptionOf(arg).param = "Optional" -> invokedWith(arg.parameter)

\* A call that invoked an optional-parameter action with a parameter and then
\* reached a required-parameter option given without one.
C8_Witness ==
    /\ pc = "return" /\ argIdx = 2
    /\ OptionOf(parsedArgs[1]).param = "Optional" /\ parsedArgs[1].parameter # NoParam
    /\ Resolves(parsedArgs[2])
    /\ OptionOf(parsedArgs[2]).param = "Required" /\ parsedArgs[2].parameter = NoParam
    /\ LastError = "ExpectedParameter"

\* C9: a ParsedArg whose alias is not in the installed registry gets exactly
\* one UnrecognisedAlias report and no invocation, and the dispatch of the call
\* halts there.
C9_UnrecognisedAliasHalts ==
    InCall =>
        \A i \in 1..argIdx :
            ~Resolves(parsedArgs[i]) =>
                /\ argIdx = i
                /\ interrupted_
                /\ Count(errors, "UnrecognisedAlias") = 1
                /\ LastError = "UnrecognisedAlias"
                /\ Len(invoked) = i - 1

\* A finished call under the recording handler, with options installed, that
\* met an unknown alias after an invocation and before another ParsedArg.
C9_Witness ==
    /\ pc = "return" /\ errorFunc_ = "record" /\ aliasMap_ # {}
    /\ argIdx = 2 /\ Len(parsedArgs) = 3
    /\ ~Resolves(parsedArgs[2])
    /\ Len(invoked) = 1

C11_ActionedAtMostOnce ==
    InCall =>
        \A o \in 0..(Len(options_) - 1) :
            Cardinality({ k \in 1..Len(invoked) : invoked[k].option = o }) <= 1

-----------------------------------------------------------------------------
(* Helpers of the properties of the tokenizer                              *)

\* The tokenizer of the running call has returned and nothing else has run:
\* errors holds the reports of the tokenizer.
Tokenized == pc = "dispatch" /\ argIdx = 0 /\ rules_ = << >>

\* The token index at which the scan stopped: one past the last token when it
\* ran to the end.
ScanStop == Len(argv) - Len(positionalArgs) + 1

Scanned(t) == t < ScanStop

\* The ParsedArgs of a list that carry token position t, in list order.
EntriesAt(args, t) == SelectSeq(args, LAMBDA e : e.index = t)

Bare(arg) == arg = << >> \/ arg[1] # "-"

\* --name=value with a name, or -n=value with a letter n; the value is not
\* empty and does not start with a dash.
IsLongWithValue(arg) ==
    LET eq == FindFirstOf(arg, "=", 1) IN
    /\ Len(arg) > 2 /\ arg[1] = "-" /\ arg[2] = "-"
    /\ eq > 3 /\ eq < Len(arg) /\ arg[eq + 1] # "-"

IsShortWithValue(arg) ==
    /\ Len(arg) > 3 /\ arg[1] = "-" /\ arg[2] \in Alpha /\ arg[3] = "="
    /\ arg[4] # "-"

NameToken(arg) == SubSeq(arg, 1, FindFirstOf(arg, "=", 1) - 1)
ValueOf(arg) == Tail_(arg, FindFirstOf(arg, "=", 1) + 1)
NameOf(arg) == IF arg[2] = "-" THEN Tail_(NameToken(arg), 3) ELSE Tail_(NameToken(arg), 2)

\* The token list with token t, name=value, given as the two tokens name value.
Spaced(av, t) ==
    SubSeq(av, 1, t - 1) \o << NameToken(av[t]), ValueOf(av[t]) >> \o SubSeq(av, t + 1, Len(av))

\* A single dash followed by letters only, at least one, up to the end of the
\* token or to its first '='.
IsGroup(arg) ==
    LET eq == FindFirstOf(arg, "=", 1)
        end == IF eq = 0 THEN Len(arg) ELSE eq - 1
    IN  /\ Len(arg) >= 2 /\ arg[1] = "-" /\ end >= 2
        /\ \A k \in 2..end : arg[k] \in Alpha

\* The first terminator of the token list is at t and the scan gets to it: the
\* only other place the scan stops at is a bare first token.
TerminatorReached(t) ==
    /\ t \in 1..Len(argv)
    /\ argv[t] = << "-", "-" >>
    /\ \A s \in 1..(t - 1) : argv[s] # << "-", "-" >>
    /\ t = 1 \/ ~Bare(argv[1])

-----------------------------------------------------------------------------
(* Properties of the tokenizer                                             *)

\* C12: when the scan reaches a bare -- token it stops there: no token after
\* it gives a ParsedArg or an error, and the positional list is exactly the
\* tokens after the terminator, in order and verbatim, without the terminator
\* itself.
C12_TerminatorEndsScan ==
    Tokenized =>
        \A t \in 1..Len(argv) :
            TerminatorReached(t) =>
                /\ positionalArgs = Tail_(argv, t + 1)
                /\ \A i \in 1..Len(parsedArgs) : parsedArgs[i].index < t
                /\ errors = argsParser_(SubSeq(argv, 1, t - 1)).errs

\* C13: the single token name=value and the two tokens name value give a
\* ParsedArg with the same alias, the same parameter and the same position,
\* for a long alias --name and for a short alias -n, and neither form adds an
\* error report.
C13_EqualsLikeSpace ==
    Tokenized =>
        \A t \in 1..Len(argv) :
            Scanned(t) /\ (IsLongWithValue(argv[t]) \/ IsShortWithValue(argv[t])) =>
                LET spaced == argsParser_(Spaced(argv, t))
                    upTo(av, n) == argsParser_(SubSeq(av, 1, n)).errs
                IN  /\ EntriesAt(parsedArgs, t) =
                          << ParsedArg(t, NameOf(argv[t]), Some(ValueOf(argv[t]))) >>
                    /\ EntriesAt(spaced.parsedArgs, t) = EntriesAt(parsedArgs, t)
                    /\ upTo(argv, t) = upTo(argv, t - 1)
                    /\ upTo(Spaced(argv, t), t + 1) = upTo(argv, t - 1)
                    /\ spaced.errs = errors

\* A call whose tokens were --p=v --p v, or -p=v -p v: two ParsedArgs that
\* differ in their position only.
C13_Witness ==
    /\ Tokenized /\ Len(argv) = 3 /\ errors = << >>
    /\ IsLongWithValue(argv[1]) \/ IsShortWithValue(argv[1])
    /\ argv[2] = NameToken(argv[1]) /\ argv[3] = ValueOf(argv[1])
    /\ Len(parsedArgs) = 2
    /\ parsedArgs[2] = [parsedArgs[1] EXCEPT !.index = 2]

\* C14: a short-alias group token of k letters gives k ParsedArgs, one per
\* letter in the order of the letters, all at the position of the token; a
\* value given after '=' or as the following bare token is the parameter of
\* the last of them, and the others have no parameter.
C14_GroupValueToLast ==
    Tokenized =>
        \A t \in 1..Len(argv) :
            Scanned(t) /\ IsGroup(argv[t]) =>
                LET letters == GroupLetters(argv[t], 2)
                    k == Len(letters)
                    entries == EntriesAt(parsedArgs, t)
                    value == IF FindFirstOf(argv[t], "=", 1) # 0 THEN Some(ValueOf(argv[t]))
                             ELSE IF t < Len(argv) /\ Bare(argv[t + 1]) THEN Some(argv[t + 1])
                             ELSE NoParam
                IN  /\ Len(entries) = k
                    /\ \A j \in 1..k :
                          /\ entries[j].alias = letters[j]
                          /\ entries[j].index = t
                          /\ j < k => entries[j].parameter = NoParam
                    /\ entries[k].parameter = value

\* A call with a group of two letters given with '=' and a later group of two
\* letters followed by a bare token.
C14_Witness ==
    /\ Tokenized
    /\ \E t \in 1..Len(argv) : \E s \in (t + 1)..(Len(argv) - 1) :
          /\ IsGroup(argv[t]) /\ Len(GroupLetters(argv[t], 2)) = 2
          /\ FindFirstOf(argv[t], "=", 1) # 0
          /\ IsGroup(argv[s]) /\ Len(GroupLetters(argv[s], 2)) = 2
          /\ FindFirstOf(argv[s], "=", 1) = 0
          /\ Bare(argv[s + 1])
    /\ Len(parsedArgs) = 4

-----------------------------------------------------------------------------
(* Helpers of the properties of the rules                                  *)

\* The rule loop of the running call has ended.
RulesDone == InCall /\ ruleIdx = Len(rules_)

\* An alias field matches a target list when it is one of the targets, whole
\* or by one of its comma-separated parts.
AliasMatches(targets, alias) ==
    \/ alias \in Range(targets)
    \/ \E k \in 1..Len(SplitOnComma(alias)) : SplitOnComma(alias)[k] \in Range(targets)

\* C of the rule semantics: the number of ParsedArg entries matching a target.
MatchCount(targets, args) ==
    Cardinality({ i \in 1..Len(args) : AliasMatches(targets, args[i].alias) })

\* The installed rules of one kind, when there is exactly one of that kind.
OnlyRuleOf(kind) ==
    { i \in 1..Len(rules_) :
        /\ rules_[i].kind = kind
        /\ \A j \in 1..Len(rules_) : rules_[j].kind = kind => j = i }

-----------------------------------------------------------------------------
(* Properties of the rules                                                 *)

\* C15: RequireAllOrNone(S) fails, reporting RuleExpectedAllOrNoneOf, if and
\* only if 0 < C < |S|, C the number of ParsedArg entries matching an alias in
\* S: with S = {x,y}, only -x fails, neither passes, both pass.
C15_AllOrNoneFailsBetween ==
    RulesDone =>
        \A i \in OnlyRuleOf("RequireAllOrNone") :
            LET C == MatchCount(rules_[i].ruleAliases, parsedArgs) IN
            Count(errors, "RuleExpectedAllOrNoneOf") =
                IF 0 < C /\ C < Len(rules_[i].ruleAliases) THEN 1 ELSE 0

\* C16: MutuallyExclusive(S) fails, reporting RuleOptionsMutuallyExclusive
\* exactly once, if and only if C > 1; with C = 0 or C = 1 it passes and
\* reports nothing.
C16_MutuallyExclusiveFailsAboveOne ==
    RulesDone =>
        \A i \in OnlyRuleOf("MutuallyExclusive") :
            LET C == MatchCount(rules_[i].ruleAliases, parsedArgs) IN
            Count(errors, "RuleOptionsMutuallyExclusive") = IF C > 1 THEN 1 ELSE 0

\* C17: RequireAtLeastOne(S) fails, reporting RuleExpectedAtLeastOneOf exactly
\* once, if and only if C = 0; it passes and reports nothing whenever at least
\* one entry matches.
C17_AtLeastOneFailsAtZero ==
    RulesDone =>
        \A i \in OnlyRuleOf("RequireAtLeastOne") :
            LET C == MatchCount(rules_[i].ruleAliases, parsedArgs) IN
            /\ Count(errors, "RuleExpectedAtLeastOneOf") = IF C = 0 THEN 1 ELSE 0
            /\ C = 0 => interrupted_ /\ invoked = << >>

\* A finished call under the recording handler with RequireAtLeastOne({x,y})
\* installed and ParsedArgs supplied, none of them x or y.
C17_Witness ==
    /\ pc = "return" /\ errorFunc_ = "record"
    /\ rules_ = << Rule("RequireAtLeastOne", << << "x" >>, << "y" >> >>) >>
    /\ Len(parsedArgs) >= 2
    /\ MatchCount(rules_[1].ruleAliases, parsedArgs) = 0
    /\ errors = << "RuleExpectedAtLeastOneOf" >>

\* A rule target matches a ParsedArg through the registry: the target is the
\* declared alias string of an installed option or one of its aliases, and
\* the alias of the ParsedArg is an alias of that same option.
TargetMatches(target, arg) ==
    \E n \in 1..Len(options_) :
        /\ target = options_[n].aliases_ \/ target \in Range(Segments(options_[n]))
        /\ arg.alias \in Range(Segments(options_[n]))

\* The target names an installed option.
TargetInstalled(target) ==
    \E n \in 1..Len(options_) :
        target = options_[n].aliases_ \/ target \in Range(Segments(options_[n]))

\* C18: a rule target that is the declared comma-joined alias string of an
\* option, or any single alias of it, matches every ParsedArg whose alias is
\* an alias of that option, whatever its parameter: RequireAtLeastOne over
\* targets of installed options passes exactly when such a ParsedArg was
\* supplied.
C18_TargetMatchesAnyAliasOfOption ==
    RulesDone =>
        \A i \in OnlyRuleOf("RequireAtLeastOne") :
            (\A j \in 1..Len(rules_[i].ruleAliases) : TargetInstalled(rules_[i].ruleAliases[j])) =>
                ( Count(errors, "RuleExpectedAtLeastOneOf") = 0
                  <=> \E k \in 1..Len(parsedArgs) : \E j \in 1..Len(rules_[i].ruleAliases) :
                          TargetMatches(rules_[i].ruleAliases[j], parsedArgs[k]) )

-----------------------------------------------------------------------------
(* Properties of the alias lists                                           *)

\* The empty segments of an option's alias list, split by position.
EmptySegments(option) ==
    Cardinality({ k \in 1..Len(Segments(option)) : Segments(option)[k] = << >> })

\* C19: ParseAliases splits an alias-list string on its commas by position: a
\* string of at least one character gives one segment more than it has
\* commas, in order, empty segments of leading, trailing and doubled commas
\* kept; the empty string gives no segment.
C19_OneSegmentPerComma ==
    op = "SetOptions" =>
        \A n \in 1..Len(candidate) :
            LET aliases == candidate[n].aliases_ IN
            /\ ParseAliases(aliases) = Segments(candidate[n])
            /\ aliases # << >> => Len(ParseAliases(aliases)) = Count(aliases, ",") + 1

\* C20: SetOptions reports EmptyAlias once for every empty segment of the
\* alias list of a candidate option, those of leading, trailing and doubled
\* commas included ("f," once, ",,," four times), and rejects the list.
C20_EmptyAliasPerEmptySegment ==
    op = "SetOptions" /\ Len(candidate) = 1 =>
        /\ Count(errors, "EmptyAlias") = EmptySegments(candidate[1])
        /\ EmptySegments(candidate[1]) > 0 => aliasMap_ = {} /\ options_ = << >>

\* The alias segments of a candidate list that repeat a non-empty segment of
\* an earlier option or an earlier segment of the same option.
DuplicateOccurrences(options) ==
    Cardinality(UNION { { << n, k >> : k \in { j \in 1..Len(Segments(options[n])) :
                                                /\ Segments(options[n])[j] # << >>
                                                /\ Segments(options[n])[j]
                                                       \in EarlierSegments(options, n, j) } } :
                        n \in 1..Len(options) })

\* C21: SetOptions reports AliasClash once for every duplicate occurrence of
\* an alias, be the alias claimed by an earlier option of the candidate list
\* or by an earlier segment of the same option ("h,h,h,Help" twice); stated
\* for the candidate lists that have no empty alias segment.
C21_AliasClashPerDuplicate ==
    op = "SetOptions" /\ (\A n \in 1..Len(candidate) : EmptySegments(candidate[n]) = 0) =>
        Count(errors, "AliasClash") = DuplicateOccurrences(candidate)

-----------------------------------------------------------------------------
(* Properties of the halt flag                                             *)

\* C22: the halt flag affects only the call it was set in: whatever halted
\* before (an earlier call, by a tokenization error, a failed rule or a
\* dispatch error, or StopParsing between the calls, once or more often), a
\* ParseArgs call with an error-free command line runs with the flag clear
\* and dispatches every ParsedArg; after StopParsing the flag is set, however
\* often it was called.
C22_HaltEndsWithTheCall ==
    /\ InCall /\ errors = << >> => ~interrupted_
    /\ pc = "return" /\ errors = << >> =>
          /\ argIdx = Len(parsedArgs)
          /\ Len(invoked) = Len(parsedArgs)
    /\ op = "StopParsing" => interrupted_

\* A finished call that reported nothing and dispatched its two or more
\* ParsedArgs, entered after a halt.
C22_Witness ==
    /\ pc = "return" /\ haltedEarlier
    /\ errors = << >>
    /\ Len(parsedArgs) >= 2
    /\ Len(invoked) = Len(parsedArgs)

-----------------------------------------------------------------------------
(* Properties of the returned list                                         *)

\* The errors of the kinds the tokenizer reports, among those of the call.
TokenizerErrors == {"ExpectedShortAlias", "ExpectedLongAlias", "ExpectedAliasIndicator"}

TokenizerReports == Cardinality({ i \in 1..Len(errors) : errors[i] \in TokenizerErrors })

DispatchErrors ==
    {"UnrecognisedAlias", "ExpectedParameter", "UnexpectedParameter", "ParameterParseError",
     "ActionError"}

DispatchReports == Cardinality({ i \in 1..Len(errors) : errors[i] \in DispatchErrors })

\* C23: ParseArgs returns exactly the positional list the tokenizer produced,
\* same content and order, in every outcome: also when a rule fails, when the
\* dispatch halts on an error and when the tokenizer reported errors.
C23_PositionalsReturnedUntouched ==
    InCall => positionalArgs = argsParser_(argv).positionalArgs

\* A call returning a positional argument after the tokenizer reported an
\* error and a rule failed.
C23_Witness ==
    /\ pc = "return"
    /\ Len(positionalArgs) >= 1
    /\ TokenizerReports >= 1
    /\ RuleReports >= 1

-----------------------------------------------------------------------------
(* Properties of SetValue                                                  *)

\* The upper-case form of a lower-case letter.
Upper(c) ==
    IF \E i \in 1..Len(LowerCase) : LowerCase[i] = c
    THEN UpperCase[CHOOSE i \in 1..Len(LowerCase) : LowerCase[i] = c]
    ELSE c

\* str is word, each letter in either case; word is in lower case.
SameIgnoringCase(str, word) ==
    /\ Len(str) = Len(word)
    /\ \A i \in 1..Len(word) : str[i] \in {word[i], Upper(word[i])}

TrueWords == { << "t", "r", "u", "e" >>, << "y", "e", "s" >>, << "y" >> }
FalseWords == { << "f", "a", "l", "s", "e" >>, << "n", "o" >>, << "n" >> }

\* C24: the bool conversion of SetValue accepts, in any case of the letters,
\* exactly true, yes, y (the bound variable becomes true) and false, no, n (it
\* becomes false) and returns None; for every other string it returns
\* ParameterParseError and leaves the bound variable as it was.
C24_BoolWordsIgnoringCase ==
    op = "SetValue" =>
        IF \E word \in TrueWords : SameIgnoringCase(call.argValue, word)
        THEN call.error = "None" /\ valueOut = TRUE
        ELSE IF \E word \in FalseWords : SameIgnoringCase(call.argValue, word)
        THEN call.error = "None" /\ valueOut = FALSE
        ELSE call.error = "ParameterParseError" /\ valueOut = call.was

\* The call with FalSE on a variable that was true.
C24_Witness ==
    /\ op = "SetValue"
    /\ call.argValue = << "F", "a", "l", "S", "E" >>
    /\ call.was = TRUE
    /\ valueOut = FALSE

-----------------------------------------------------------------------------
(* Properties of the tokenizer on bare and malformed tokens                *)

\* What the tokenizer gives for the first t tokens of the command line.
PrefixScan(t) == argsParser_(SubSeq(argv, 1, t))

\* The scan of the first t tokens ran through all of them, without a write
\* through back() of an empty list.
RanThrough(t) == PrefixScan(t).positionalArgs = << >> /\ ~PrefixScan(t).ub

\* C25: a bare token met while the ParsedArg list is not empty becomes the
\* parameter of the last ParsedArg if that one has none; if it has one
\* (--name=value included) exactly one ExpectedAliasIndicator is reported and
\* that parameter stays as it is; in both cases no ParsedArg is added and the
\* scan goes on with the next token.
C25_BareTokenAfterAnArg ==
    Tokenized =>
        \A t \in 2..Len(argv) :
            LET prior == PrefixScan(t - 1)
                cur == PrefixScan(t)
                n == Len(prior.parsedArgs)
            IN  Bare(argv[t]) /\ RanThrough(t - 1) /\ n >= 1 =>
                    /\ IF prior.parsedArgs[n].parameter = NoParam
                       THEN /\ cur.parsedArgs = SetBackParam(prior.parsedArgs, argv[t])
                            /\ cur.errs = prior.errs
                       ELSE /\ cur.parsedArgs = prior.parsedArgs
                            /\ cur.errs = Append(prior.errs, "ExpectedAliasIndicator")
                    /\ Scanned(t)
                    /\ EntriesAt(parsedArgs, t) = << >>
                    /\ SubSeq(errors, 1, Len(cur.errs)) = cur.errs
                    /\ t = Len(argv) => parsedArgs = cur.parsedArgs

\* A call with --p=w, a bare token that is not w, and another alias: one
\* ExpectedAliasIndicator, the parameter of p still w, and the scan went on.
C25_Witness ==
    /\ Tokenized
    /\ Len(argv) = 3
    /\ IsLongWithValue(argv[1]) /\ Bare(argv[2]) /\ ~Bare(argv[3])
    /\ argv[2] # ValueOf(argv[1])
    /\ argv[3] # << "-", "-" >>
    /\ errors = << "ExpectedAliasIndicator" >>
    /\ Len(parsedArgs) = 2
    /\ parsedArgs[1].parameter = Some(ValueOf(argv[1]))
    /\ parsedArgs[2].index = 3

\* C26: a bare token met while no ParsedArg has been produced so far ends the
\* scan: it and all tokens after it are the positional list, no ParsedArg is
\* produced from them and no error is reported for them.
C26_BareBeforeAnyArgEndsScan ==
    Tokenized =>
        \A t \in 1..Len(argv) :
            (/\ Bare(argv[t])
             /\ t > 1 => RanThrough(t - 1)
             /\ PrefixScan(t - 1).parsedArgs = << >>)
            => /\ positionalArgs = Tail_(argv, t)
               /\ parsedArgs = << >>
               /\ errors = PrefixScan(t - 1).errs

\* C26 as it holds: a bare token that is the very first token ends the scan:
\* it and all tokens after it are the positional list, no ParsedArg is
\* produced and no error is reported.
C26_BareFirstTokenEndsScan ==
    Tokenized /\ argv # << >> /\ Bare(argv[1]) =>
        /\ positionalArgs = argv
        /\ parsedArgs = << >>
        /\ errors = << >>

\* A call of three tokens whose first is bare and whose second is an alias.
C26_Witness ==
    /\ Tokenized
    /\ Len(argv) = 3
    /\ Bare(argv[1]) /\ IsShortToken(argv[2])
    /\ positionalArgs = argv
    /\ parsedArgs = << >>

\* The characters of a single-dash token before its first '=' that are not
\* letters.
RECURSIVE Offending(_, _)
Offending(arg, k) ==
    IF k > Len(arg) \/ arg[k] = "=" THEN 0
    ELSE (IF arg[k] \in Alpha THEN 0 ELSE 1) + Offending(arg, k + 1)

\* The ExpectedShortAlias reports due for the tokens t..Len(argv): one for a
\* lone dash or a dash followed by '=', one per offending character otherwise.
RECURSIVE ShortAliasReportsDue(_)
ShortAliasReportsDue(t) ==
    IF t > Len(argv) THEN 0
    ELSE (IF IsShortToken(argv[t]) THEN Offending(argv[t], 2)
          ELSE IF ~Bare(argv[t]) /\ (Len(argv[t]) = 1 \/ argv[t][2] = "=") THEN 1
          ELSE 0) + ShortAliasReportsDue(t + 1)

\* No token ends the scan early: no terminator and no bare first token.
NothingEndsScan ==
    /\ \A t \in 1..Len(argv) : argv[t] # << "-", "-" >>
    /\ argv # << >> => ~Bare(argv[1])

\* C27: a character of a single-dash token that is neither a letter nor '='
\* is reported as ExpectedShortAlias and the scan goes on: the letters of the
\* token before its first '=', those after the character included, give their
\* ParsedArgs, the later tokens are scanned, and there is one report per such
\* character.
C27_OffendingCharacterSkipped ==
    Tokenized /\ errorFunc_ = "record" =>
        /\ \A t \in 1..Len(argv) :
              Scanned(t) /\ IsShortToken(argv[t]) =>
                  AliasesAt(t, 1) = GroupLetters(argv[t], 2)
        /\ NothingEndsScan =>
              /\ ScanStop = Len(argv) + 1
              /\ Count(errors, "ExpectedShortAlias") = ShortAliasReportsDue(1)

\* A call with -a1b and then an alias: a, b and the later alias are in the
\* ParsedArg list, with one ExpectedShortAlias.
C27_Witness ==
    /\ Tokenized /\ errorFunc_ = "record"
    /\ Len(argv) = 2
    /\ IsShortToken(argv[1]) /\ Offending(argv[1], 2) = 1 /\ Len(GroupLetters(argv[1], 2)) = 2
    /\ IsShortToken(argv[2]) /\ Offending(argv[2], 2) = 0
    /\ Len(parsedArgs) = 3
    /\ parsedArgs[2].alias = GroupLetters(argv[1], 2)[2]
    /\ parsedArgs[3].index = 2
    /\ errors = << "ExpectedShortAlias" >>

\* C28: the '=' of a single-dash token leaves the ParsedArgs of the earlier
\* tokens as they were, and is not applied while the token has given no
\* ParsedArg, the empty ParsedArg list included.
C28_EqualsStaysInItsToken ==
    /\ pc # "crashed"
    /\ Tokenized =>
          \A t \in 1..Len(argv) :
              LET prior == PrefixScan(t - 1).parsedArgs IN
              /\ IsShortToken(argv[t])
              /\ FindFirstOf(argv[t], "=", 1) # 0
              /\ t > 1 => PrefixScan(t - 1).positionalArgs = << >>
              => /\ SubSeq(PrefixScan(t).parsedArgs, 1, Len(prior)) = prior
                 /\ t = Len(argv) => SubSeq(parsedArgs, 1, Len(prior)) = prior

-----------------------------------------------------------------------------
(* Properties of the dispatch after errors                                 *)

\* C29: with the default handler a call whose tokenizer reported an error
\* invokes no action, interrupted_ being set from the tokenizer on; with the
\* recording handler such a call, when the tokenizer errors are its only
\* errors, has passed every ParsedArg to the dispatch by its return.
C29_TokenizerErrorAndHandler ==
    /\ InCall /\ errorFunc_ = "default" /\ TokenizerReports >= 1 =>
          invoked = << >> /\ interrupted_ /\ argIdx = 0
    /\ pc = "return" /\ errorFunc_ = "record" /\ TokenizerReports = Len(errors) =>
          /\ argIdx = Len(parsedArgs)
          /\ Len(invoked) = Len(parsedArgs)

\* The return of a call under the default handler whose tokenizer reported an
\* error and produced ParsedArgs of installed options.
C29_Witness ==
    /\ pc = "return" /\ errorFunc_ = "default"
    /\ TokenizerReports >= 1
    /\ Len(parsedArgs) >= 2
    /\ \A i \in 1..Len(parsedArgs) : Resolves(parsedArgs[i])
    /\ invoked = << >>

\* C30: a call reports at most one dispatch error.
C30_OneDispatchErrorPerCall ==
    InCall => DispatchReports <= 1

\* The return of a call under the recording handler with one dispatch error
\* and a ParsedArg after it that would have given another.
C30_Witness ==
    /\ pc = "return" /\ errorFunc_ = "record"
    /\ DispatchReports = 1
    /\ \E i \in (argIdx + 1)..Len(parsedArgs) : ExpectedError(parsedArgs[i]) # "None"

====
